---- MODULE Spec2Model ----
(***************************************************************************)
(* Model of the map page of public-health-insights (map.js, the second     *)
(* revision in src/unnamed/part_000, lines 505-1155): the loader loadAll,  *)
(* the year dropdown filler populateYearSelectForDisease, the geography    *)
(* memo loadGeo and the aggregation loadAll performs on the fetched rows.  *)
(*                                                                         *)
(* JavaScript values are modelled by what the language does with them:     *)
(* strings are sequences of one-character strings, so that trim, Number()  *)
(* and String() are computed, and property keys are compared as strings.   *)
(* Numbers are integers; NaN is a value of its own.  Fractions, exponents, *)
(* hexadecimal literals and Infinity are outside the modelled inputs.      *)
(***************************************************************************)
EXTENDS Integers, Sequences, FiniteSets, TLC

(* ------------------------------ bounds -------------------------------- *)
\* longest row list a dataset file holds in the pure-aggregation runs
MaxRows == 2
\* loadAll invocations per page lifetime
MaxRuns == 2
\* populateYearSelectForDisease invocations per page lifetime
MaxPops == 2

(* --------------------------- JavaScript values ------------------------ *)
Undef == [k |-> "undefined", n |-> 0, s |-> <<>>]
Null == [k |-> "null", n |-> 0, s |-> <<>>]
NaN == [k |-> "nan", n |-> 0, s |-> <<>>]
Num(n) == [k |-> "num", n |-> n, s |-> <<>>]
Str(s) == [k |-> "str", n |-> 0, s |-> s]

IsNum(v) == v.k = "num"

\* ToBoolean
Truthy(v) ==
  CASE v.k = "num" -> v.n # 0
    [] v.k = "str" -> Len(v.s) > 0
    [] OTHER -> FALSE

\* a || b
Or(a, b) == IF Truthy(a) THEN a ELSE b

\* r.col : a missing property reads as undefined
Col(r, c) == IF c \in DOMAIN r THEN r[c] ELSE Undef

IsWS(c) == c \in {" ", "\t"}

RECURSIVE TrimLeft(_)
TrimLeft(s) ==
  IF s = <<>> THEN <<>>
  ELSE IF IsWS(Head(s)) THEN TrimLeft(Tail(s)) ELSE s

RECURSIVE TrimRight(_)
TrimRight(s) ==
  IF s = <<>> THEN <<>>
  ELSE IF IsWS(s[Len(s)]) THEN TrimRight(SubSeq(s, 1, Len(s) - 1)) ELSE s

\* String.prototype.trim
Trim(s) == TrimRight(TrimLeft(s))

DigitChars == <<"0", "1", "2", "3", "4", "5", "6", "7", "8", "9">>
IsDigit(c) == \E d \in 1..10 : DigitChars[d] = c
DigitVal(c) == (CHOOSE d \in 1..10 : DigitChars[d] = c) - 1

RECURSIVE DigitsVal(_)
DigitsVal(s) ==
  IF s = <<>> THEN 0
  ELSE 10 * DigitsVal(SubSeq(s, 1, Len(s) - 1)) + DigitVal(s[Len(s)])

AllDigits(s) == s # <<>> /\ \A i \in 1..Len(s) : IsDigit(s[i])

\* StringToNumber: white space is stripped, the empty string is 0, an
\* optionally signed run of decimal digits is its value, anything else NaN
StrToNumber(s) ==
  LET t == Trim(s) IN
  IF t = <<>> THEN Num(0)
  ELSE IF AllDigits(t) THEN Num(DigitsVal(t))
  ELSE IF Head(t) = "-" /\ AllDigits(Tail(t)) THEN Num(0 - DigitsVal(Tail(t)))
  ELSE IF Head(t) = "+" /\ AllDigits(Tail(t)) THEN Num(DigitsVal(Tail(t)))
  ELSE NaN

\* Number(v)
ToNumber(v) ==
  CASE v.k = "undefined" -> NaN
    [] v.k = "null" -> Num(0)
    [] v.k = "nan" -> NaN
    [] v.k = "num" -> v
    [] v.k = "str" -> StrToNumber(v.s)

RECURSIVE NatToStr(_)
NatToStr(n) ==
  IF n < 10 THEN <<DigitChars[n + 1]>>
  ELSE NatToStr(n \div 10) \o <<DigitChars[(n % 10) + 1]>>

\* Number::toString
NumToStr(n) == IF n < 0 THEN <<"-">> \o NatToStr(0 - n) ELSE NatToStr(n)

\* String(v), also the conversion of a value to a property key
ToStr(v) ==
  CASE v.k = "undefined" -> <<"u", "n", "d", "e", "f", "i", "n", "e", "d">>
    [] v.k = "null" -> <<"n", "u", "l", "l">>
    [] v.k = "nan" -> <<"N", "a", "N">>
    [] v.k = "num" -> NumToStr(v.n)
    [] v.k = "str" -> v.s

\* Number.isFinite
IsFiniteNum(v) == v.k = "num"

(* ------------------------- ordering and folding ----------------------- *)
\* UTF-16 code units of the characters that occur in the modelled strings
CharCode(c) ==
  CASE c = "\t" -> 9 [] c = " " -> 32 [] c = "\"" -> 34 [] c = "+" -> 43
    [] c = "," -> 44 [] c = "-" -> 45 [] c = "/" -> 47
    [] IsDigit(c) -> 48 + DigitVal(c)
    [] c = "K" -> 75 [] c = "M" -> 77 [] c = "N" -> 78 [] c = "O" -> 79 [] c = "T" -> 84
    [] c = "U" -> 85 [] c = "Y" -> 89
    [] c = "a" -> 97 [] c = "b" -> 98 [] c = "d" -> 100 [] c = "e" -> 101
    [] c = "f" -> 102 [] c = "h" -> 104 [] c = "i" -> 105 [] c = "l" -> 108
    [] c = "n" -> 110 [] c = "o" -> 111 [] c = "s" -> 115 [] c = "t" -> 116
    [] c = "u" -> 117 [] c = "x" -> 120
    [] OTHER -> 65533

\* the default comparison of Array.prototype.sort: by code unit, a proper
\* prefix first
RECURSIVE StrLess(_, _)
StrLess(a, b) ==
  IF b = <<>> THEN FALSE
  ELSE IF a = <<>> THEN TRUE
  ELSE IF CharCode(Head(a)) # CharCode(Head(b))
       THEN CharCode(Head(a)) < CharCode(Head(b))
  ELSE StrLess(Tail(a), Tail(b))

\* Array.from(new Set(seq)): first occurrences, in order (the one-element
\* set binds the prefix's result to a value, computed once)
RECURSIVE Dedupe(_)
Dedupe(seq) ==
  IF seq = <<>> THEN <<>>
  ELSE LET x == seq[Len(seq)]
       IN CHOOSE out \in {IF \E i \in 1..Len(init) : init[i] = x THEN init ELSE Append(init, x) :
                          init \in {Dedupe(SubSeq(seq, 1, Len(seq) - 1))}} : TRUE

RECURSIVE InsertNum(_, _)
InsertNum(sorted, x) ==
  IF sorted = <<>> THEN <<x>>
  ELSE IF x < Head(sorted) THEN <<x>> \o sorted
  ELSE <<Head(sorted)>> \o InsertNum(Tail(sorted), x)

\* .sort((a, b) => a - b)
RECURSIVE SortNum(_)
SortNum(seq) ==
  IF seq = <<>> THEN <<>>
  ELSE CHOOSE out \in {InsertNum(sorted, seq[Len(seq)]) :
                        sorted \in {SortNum(SubSeq(seq, 1, Len(seq) - 1))}} : TRUE

RECURSIVE InsertStr(_, _)
InsertStr(sorted, x) ==
  IF sorted = <<>> THEN <<x>>
  ELSE IF StrLess(x, Head(sorted)) THEN <<x>> \o sorted
  ELSE <<Head(sorted)>> \o InsertStr(Tail(sorted), x)

\* .sort()
RECURSIVE SortStr(_)
SortStr(seq) ==
  IF seq = <<>> THEN <<>>
  ELSE CHOOSE out \in {InsertStr(sorted, seq[Len(seq)]) :
                        sorted \in {SortStr(SubSeq(seq, 1, Len(seq) - 1))}} : TRUE

Range(seq) == {seq[i] : i \in 1..Len(seq)}

\* Array.prototype.includes on an array of numbers
Includes(seq, v) == IsNum(v) /\ v.n \in Range(seq)

(* ------------- aggregation: loadAll, part_000 lines 1085-1124 --------- *)
\* line 1089: what a row contributes to the year list, null when unusable
RowListYear(r) ==
  LET v == Or(Or(Col(r, "Year"), Col(r, "year")), Null)
      n == ToNumber(v)
  IN IF IsFiniteNum(n) THEN n ELSE Null

\* lines 1088-1090: map, filter(Boolean), Set, numeric sort
YearsOf(rows) ==
  LET m == [i \in 1..Len(rows) |-> RowListYear(rows[i])]
      f == SelectSeq(m, Truthy)
  IN SortNum(Dedupe([i \in 1..Len(f) |-> f[i].n]))

\* lines 1092 and 1114: String(r.State || r.state || '').trim()
RowState(r) ==
  Trim(ToStr(Or(Or(Col(r, "State"), Col(r, "state")), Str(<<>>))))

NonEmpty(s) == s # <<>>

\* line 1092: map, filter(Boolean), Set, default sort
StatesOf(rows) ==
  SortStr(Dedupe(SelectSeq([i \in 1..Len(rows) |-> RowState(rows[i])], NonEmpty)))

\* line 1115: Number(r.Year || r.year)
RowYear(r) == ToNumber(Or(Col(r, "Year"), Col(r, "year")))

\* line 1116: Number(r.Cases || r.cases) || 0
RowCases(r) == Or(ToNumber(Or(Col(r, "Cases"), Col(r, "cases"))), Num(0)).n

\* the same test with a row that has no case count skipped as well
RowKeptNeedsCases(r) ==
  /\ RowState(r) # <<>>
  /\ Truthy(RowYear(r))
  /\ Truthy(ToNumber(Or(Col(r, "Cases"), Col(r, "cases"))))

\* line 1117: the row is skipped when !s || !y
RowKept(r) == RowState(r) # <<>> /\ Truthy(RowYear(r))

\* lines 1104-1109: the requested year when years holds it, else the last
\* (largest) year; years[-1] of an empty list is undefined
ResolveYearFirst(years, sel) ==
  IF Includes(years, ToNumber(sel)) THEN sel
  ELSE IF Len(years) > 0 THEN Num(years[1]) ELSE Undef

\* the first year of the list for a request that is in the list
ResolveYearRestart(years, sel) ==
  IF Len(years) = 0 THEN Undef
  ELSE IF Includes(years, ToNumber(sel)) THEN Num(years[1])
  ELSE Num(years[Len(years)])

ResolveYear(years, sel) ==
  IF Includes(years, ToNumber(sel)) THEN sel
  ELSE IF Len(years) > 0 THEN Num(years[Len(years)]) ELSE Undef

\* an object whose keys are numbers written as strings: a function on the
\* numbers, the key of n being NumToStr(n)
EmptyObj == [n \in {} |-> 0]
PutKey(obj, n, v) == [x \in DOMAIN obj \cup {n} |-> IF x = n THEN v ELSE obj[x]]

\* obj[v]: the property whose key is String(v), undefined when there is none
GetProp(obj, v) ==
  LET key == ToStr(v)
      hit == {n \in DOMAIN obj : NumToStr(n) = key}
  IN IF hit = {} THEN Undef ELSE Num(obj[CHOOSE n \in hit : TRUE])

\* obj[n] || 0 for a number n
GetOr0(obj, n) == IF n \in DOMAIN obj THEN obj[n] ELSE 0

\* the same loop body with the cell overwritten instead of accumulated
PivotAddReplace(p, r) ==
  IF ~RowKept(r) THEN p
  ELSE [p EXCEPT ![RowState(r)] = PutKey(@, RowYear(r).n, RowCases(r))]

\* lines 1113-1119: one iteration of rows.forEach
PivotAdd(p, r) ==
  IF ~RowKept(r) THEN p
  ELSE [p EXCEPT ![RowState(r)] =
          PutKey(@, RowYear(r).n, GetOr0(@, RowYear(r).n) + RowCases(r))]

RECURSIVE PivotFold(_, _)
PivotFold(p, rows) ==
  IF rows = <<>> THEN p ELSE PivotFold(PivotAdd(p, Head(rows)), Tail(rows))

\* the same loop started at the second row
PivotOfSkipFirst(states, rows) ==
  PivotFold([s \in Range(states) |-> EmptyObj], IF rows = <<>> THEN rows ELSE Tail(rows))

\* lines 1112-1119
PivotOf(states, rows) == PivotFold([s \in Range(states) |-> EmptyObj], rows)

\* line 1121: stateValues[s] = pivot[s][selectedYear] || 0
StateValuesOf(states, pivot, sel) ==
  [s \in Range(states) |-> Or(GetProp(pivot[s], sel), Num(0)).n]

\* line 1122: Object.values(stateValues), in insertion order
ValsOf(states, sv) == [i \in 1..Len(states) |-> sv[states[i]]]

RECURSIVE SumSeq(_)
SumSeq(seq) == IF seq = <<>> THEN 0 ELSE Head(seq) + SumSeq(Tail(seq))

\* line 1123
MinOf(vals) ==
  IF vals = <<>> THEN 0
  ELSE CHOOSE v \in Range(vals) : \A w \in Range(vals) : v <= w
\* the first value instead of the largest
MaxOfFirst(vals) == IF vals = <<>> THEN 0 ELSE vals[1]

MaxOf(vals) ==
  IF vals = <<>> THEN 0
  ELSE CHOOSE v \in Range(vals) : \A w \in Range(vals) : v >= w

\* drawLine, lines 811-815: national total per year, straight from the rows
YearAggAdd(agg, r) ==
  IF ~Truthy(RowYear(r)) THEN agg
  ELSE PutKey(agg, RowYear(r).n, GetOr0(agg, RowYear(r).n) + RowCases(r))

RECURSIVE YearAggFold(_, _)
YearAggFold(agg, rows) ==
  IF rows = <<>> THEN agg ELSE YearAggFold(YearAggAdd(agg, Head(rows)), Tail(rows))

YearAggOf(rows) == YearAggFold(EmptyObj, rows)

\* line 815: Object.keys(yearAgg).map(Number).sort((a, b) => a - b)
RECURSIVE SortedKeys(_)
SortedKeys(obj) ==
  IF DOMAIN obj = {} THEN <<>>
  ELSE LET m == CHOOSE y \in DOMAIN obj : \A z \in DOMAIN obj : y <= z
       IN <<m>> \o SortedKeys([x \in DOMAIN obj \ {m} |-> obj[x]])

\* lines 1088-1124: everything loadAll derives from the rows and the
\* requested year before it touches the charts
Aggregate(rows, sel) ==
  LET years == YearsOf(rows)
      states == StatesOf(rows)
      resolved == ResolveYear(years, sel)
      pivot == PivotOf(states, rows)
      sv == StateValuesOf(states, pivot, resolved)
      vals == ValsOf(states, sv)
  IN [years |-> years, states |-> states, selectedYear |-> resolved,
      pivot |-> pivot, stateValues |-> sv, vals |-> vals,
      minV |-> MinOf(vals), maxV |-> MaxOf(vals), total |-> SumSeq(vals)]

(* ------------------------------ the page ------------------------------ *)
\* dataset keys of datasetsMap (lines 515-525) the model uses
Keys == {"HIV", "TB"}
\* a disease parameter of the URL that is no key of datasetsMap
UnknownKey == "Cholera"
\* a disease parameter that names a member every object inherits
InheritedKey == "constructor"

UpperChars == <<"A", "B", "C", "D", "E", "F", "G", "H", "I", "J", "K", "L", "M",
                "N", "O", "P", "Q", "R", "S", "T", "U", "V", "W", "X", "Y", "Z">>
LowerChars == <<"a", "b", "c", "d", "e", "f", "g", "h", "i", "j", "k", "l", "m",
                "n", "o", "p", "q", "r", "s", "t", "u", "v", "w", "x", "y", "z">>

\* String.prototype.toLowerCase
ToLower(s) ==
  [i \in 1..Len(s) |->
     IF \E j \in 1..26 : UpperChars[j] = s[i]
     THEN LowerChars[CHOOSE j \in 1..26 : UpperChars[j] = s[i]]
     ELSE s[i]]

\* String.prototype.endsWith
EndsWith(s, suffix) ==
  /\ Len(s) >= Len(suffix)
  /\ SubSeq(s, Len(s) - Len(suffix) + 1, Len(s)) = suffix

DotJson == <<".", "j", "s", "o", "n">>
DotCsv == <<".", "c", "s", "v">>
DotXlsx == <<".", "x", "l", "s", "x">>
HivXlsx == <<"H", "I", "V", "_", "d", "a", "t", "a">> \o DotXlsx
TbXlsx == <<"T", "B">> \o DotXlsx
NoName == <<>>

\* datasetsMap[key] for a key of the table
BaseName(key) == IF key = "HIV" THEN HivXlsx ELSE TbXlsx

\* line 598: base.replace(/\.xlsx$/i, '.json')
JsonName(key) ==
  LET base == BaseName(key)
  IN IF EndsWith(ToLower(base), DotXlsx)
     THEN SubSeq(base, 1, Len(base) - Len(DotXlsx)) \o DotJson
     ELSE base

(* ------------- the row parser: fetchRowsFromFile, lines 612-664 ------- *)
\* what a GET ends in: a rejected request, or an answer with a status and
\* a body.  A body is a row list written in the format the file name
\* announces, the JSON text of a value that is not an array, or bytes that
\* are nothing in that format (an error page, a truncated file).
Rejected == [t |-> "rejected", status |-> 0, body |-> [t |-> "none"]]
Answer(status, body) == [t |-> "answer", status |-> status, body |-> body]
RowsBody(rows) == [t |-> "rows", rows |-> rows]
ObjectBody == [t |-> "object"]
JunkBody == [t |-> "junk"]

\* the server has the file and sends it, or has no such file
Served(rows) == Answer(200, RowsBody(rows))
NotFound == Answer(404, JunkBody)

\* Response.ok
RespOk(resp) == resp.status >= 200 /\ resp.status <= 299

\* what the parser ends in: a returned value or a thrown error, and
\* whether it went as far as decoding the body
NoError == [kind |-> "none", status |-> 0]
Err(kind) == [kind |-> kind, status |-> 0]
FetchFailed(status) == [kind |-> "FetchFailed", status |-> status]
Returned(value, decoded) ==
  [t |-> "return", value |-> value, err |-> NoError, decoded |-> decoded]
Thrown(err, decoded) ==
  [t |-> "throw", value |-> [t |-> "none"], err |-> err, decoded |-> decoded]

\* the record the pages keep of a parse: the file, the status of the
\* answer to its GET (0 without an answer) and what the parser ended in,
\* without the rows
Outcome(res, name, resp) ==
  [t |-> res.t, value |-> [t |-> res.value.t], err |-> res.err,
   decoded |-> res.decoded, name |-> name, status |-> resp.status]
NoResult == [t |-> "none", value |-> [t |-> "none"], err |-> NoError,
             decoded |-> FALSE, name |-> <<>>, status |-> 0]

\* line 565
isJSONFile(name) ==
  EndsWith(ToLower(name), DotJson) \/ EndsWith(ToLower(name), DotCsv)

\* parseCSV of a text: the rows it holds, and for a text that is no table
\* of rows whatever its lines split into
GarbageRows == << [junk |-> Str(<<"x">>)] >>
CsvRowsOf(body) == IF body.t = "rows" THEN body.rows ELSE GarbageRows

\* lines 613-663: the value fetchRowsFromFile returns or the error it
\* throws for a file name, the answer to its GET and the availability of
\* the XLSX library
fetchRowsFromFile(name, resp, xlsx) ==
  IF name = <<>> THEN Thrown(Err("NoFilename"), FALSE)
  ELSE IF resp.t = "rejected" THEN Thrown(Err("Network"), FALSE)
  ELSE IF isJSONFile(name)
  THEN IF ~RespOk(resp) THEN Thrown(FetchFailed(resp.status), FALSE)
       ELSE IF EndsWith(ToLower(name), DotJson)
       THEN \* r.json(): any JSON value is returned as it is
            IF resp.body.t = "junk" THEN Thrown(Err("SyntaxError"), TRUE)
            ELSE Returned(resp.body, TRUE)
       ELSE Returned(RowsBody(CsvRowsOf(resp.body)), TRUE)
  ELSE IF ~RespOk(resp) THEN Thrown(FetchFailed(resp.status), FALSE)
  ELSE IF ~xlsx THEN Thrown(Err("NoXLSX"), FALSE)
  ELSE IF resp.body.t # "rows" THEN Thrown(Err("XLSXParse"), TRUE)
  ELSE Returned(resp.body, TRUE)

\* loadAll line 1085 on the returned value: !rows || !rows.length
HasRows(value) == value.t = "rows" /\ value.rows # <<>>

\* pickFilenameForKey lines 596-598, before any request: datasetsMap[key]
\* is a file name for a key of the table, undefined for any other string
\* (line 597 throws), and for an inherited member a function, which is
\* truthy and has no replace method (line 598 throws a TypeError)
PickStart(key) ==
  IF key \in Keys THEN "probe"
  ELSE IF key = InheritedKey THEN "TypeError"
  ELSE "NoMapping"

\* how the HEAD request of line 602 can end: a 2xx answer, any other
\* answer, or a rejected fetch
ProbeOutcomes == {"ok", "status", "throws"}

\* the pre-converted candidate whatever the probe says
PickFilenameJson(key, probe) == JsonName(key)

\* pickFilenameForKey lines 598-608: the value returned after the probe
PickFilename(key, probe) ==
  IF probe = "ok" THEN JsonName(key) ELSE BaseName(key)

VARIABLES
  files,          \* the rows each dataset file holds, by key
  page,           \* the page of the site the window shows
  hasSelects,     \* the header selects and the Load button exist on the page
  chartLib,       \* window.Chart is defined
  matrixLib,      \* the matrix controller is registered with Chart
  xlsxLib,        \* XLSX is defined, or its script loads when asked for
  probeAnswers,   \* the server answers HEAD requests at all
  booted,         \* the init block (lines 1150-1155) has run
  pendingLoad,    \* the init block's then-callback is queued: loadAll() next
  diseaseKey,     \* line 511
  selectedYear,   \* line 512
  dsValue,        \* dsSelectHeader.value
  yearOptions,    \* the option values of yearSelectHeader, in order
  yearValue,      \* yearSelectHeader.value
  totalCasesEl,   \* text of #totalCases
  selectedInfoEl, \* text of #selectedInfo
  appStatus,      \* message of #app-status
  mapLayer,       \* the GeoJSON layer on leafletMap
  barChart, lineChart, histChart,
  heatmap,        \* matrixChartRef
  legendWrap,
  geoCache,       \* line 675
  geoFetches,     \* successful fetches of usa_states.geojson so far
  runs, nRuns,    \* the loadAll invocations and how many were started
  pops, nPops,    \* the populateYearSelectForDisease invocations
  download,       \* the text of the last heatmap_export.csv handed out
  statePage,      \* the state report page: its loadState invocation
  indexPage       \* the landing page: its populateYearsForDisease invocation

envVars == <<files, page, hasSelects, chartLib, matrixLib, xlsxLib, probeAnswers>>
sideVars == <<download, statePage, indexPage>>
globalVars == <<diseaseKey, selectedYear>>
selectVars == <<dsValue, yearOptions, yearValue>>
textVars == <<totalCasesEl, selectedInfoEl, appStatus>>
chartVars == <<mapLayer, barChart, lineChart, histChart, heatmap, legendWrap>>
geoVars == <<geoCache, geoFetches>>
vars == <<envVars, booted, pendingLoad, globalVars, selectVars, textVars,
          chartVars, geoVars, runs, nRuns, pops, nPops, sideVars>>

NoAgg == [t |-> "none"]
NoChart == [t |-> "none"]
NoDownload == [t |-> "none"]
Blank == [t |-> "blank"]
\* state.js: rawTable is the content of #rawTable, ts the time series the
\* charts are drawn from
IdleStatePage == [pc |-> "idle", fname |-> NoName, parse |-> NoResult,
                  rawTable |-> Blank, ts |-> <<>>, stateMap |-> "blank",
                  summary |-> Blank, charts |-> FALSE]
\* script.js: fetched lists the files requested so far, answers the
\* statuses of the answers (0 for a rejected request), decoded the files
\* whose body was handed to a decoder, result what
\* fetchRowsFromCandidates gave its caller
IdleIndexPage == [pc |-> "idle", key |-> "", fetched |-> <<>>,
                  answers |-> <<>>, decoded |-> {},
                  result |-> "none", options |-> <<>>, value |-> <<>>,
                  status |-> "none"]
AllSteps == {"choropleth", "bar", "line", "hist", "heatmap", "legend"}

\* probe is the answer to a run's HEAD request while the file it chose is
\* being fetched, err the error its catch block received
\* parse is what fetchRowsFromFile ended in
IdleRun == [pc |-> "idle", key |-> "", req |-> Undef, probe |-> "none",
            fname |-> NoName, parse |-> NoResult, rows |-> <<>>, agg |-> NoAgg,
            drawn |-> {}, err |-> ""]
IdlePop == [pc |-> "idle", key |-> "", fname |-> NoName, thenLoad |-> FALSE]

\* line 1125
TotalText(agg) == [t |-> "total", year |-> agg.selectedYear, total |-> agg.total]
\* lines 1139-1140
FailedText == [t |-> "failed"]
ErrorInfo == [t |-> "error"]

\* the value a select reports after `select.value = s`: s when an option
\* carries it, the empty string otherwise
SetSelect(options, s) == IF s \in Range(options) THEN s ELSE <<>>

\* lines 1094-1102: one option per year, its value String(y)
YearOptionsOf(years) == [i \in 1..Len(years) |-> NumToStr(years[i])]

(* ---- loadAll ---- *)
\* the catch block, lines 1137-1142
Catch ==
  /\ totalCasesEl' = FailedText
  /\ selectedInfoEl' = ErrorInfo
  /\ appStatus' = "error"

\* heatmap is the matrix chart of line 960 or, without the matrix
\* controller, the fallback table of lines 1006-1026; each holds one cell
\* per state and year, pivot[st][yr] || 0
\* lines 1129-1136 for the run record rec, with selectedYear as it is when
\* the drawing starts; drawBar's `new Chart` throws when Chart is undefined
RenderedRun(rec) ==
  IF chartLib THEN [rec EXCEPT !.pc = "done", !.drawn = AllSteps]
  ELSE [rec EXCEPT !.pc = "failed", !.drawn = {"choropleth"}, !.err = "Draw"]

Render(rec, sel, total) ==
  /\ mapLayer' = [t |-> "choropleth", values |-> rec.agg.stateValues,
                  minV |-> rec.agg.minV, maxV |-> rec.agg.maxV]
  /\ IF chartLib
     THEN /\ barChart' = [t |-> "bar", year |-> sel, values |-> rec.agg.stateValues]
          /\ lineChart' = [t |-> "line", series |-> YearAggOf(rec.rows)]
          /\ histChart' = [t |-> "hist", vals |-> rec.agg.vals]
          /\ heatmap' = [t |-> IF matrixLib THEN "matrix" ELSE "table",
                         years |-> rec.agg.years,
                         states |-> rec.agg.states, pivot |-> rec.agg.pivot]
          /\ legendWrap' = [t |-> "legend", minV |-> rec.agg.minV, maxV |-> rec.agg.maxV]
          /\ totalCasesEl' = total
          /\ appStatus' = "ok"
          /\ UNCHANGED selectedInfoEl
     ELSE /\ UNCHANGED <<barChart, lineChart, histChart, heatmap, legendWrap>>
          /\ Catch

\* lines 1074-1083, up to the HEAD request of pickFilenameForKey, or
\* through the catch block when pickFilenameForKey throws before it; the
\* caller is the Load button or the init block's then-callback
LoadAllStart ==
  /\ nRuns < MaxRuns
  /\ pendingLoad \/ (booted /\ hasSelects)
  /\ LET key == IF hasSelects THEN dsValue ELSE diseaseKey
         yr == IF hasSelects THEN Str(yearValue) ELSE selectedYear
         new == [IdleRun EXCEPT !.key = key, !.req = yr]
     IN /\ diseaseKey' = key
        /\ selectedYear' = yr
        /\ IF PickStart(key) = "probe"
           THEN /\ selectedInfoEl' = [t |-> "dataset", key |-> key, year |-> yr]
                /\ totalCasesEl' = [t |-> "loading"]
                /\ appStatus' = "loading"
                /\ runs' = [runs EXCEPT ![nRuns + 1] = [new EXCEPT !.pc = "head"]]
           ELSE /\ Catch
                /\ runs' = [runs EXCEPT ![nRuns + 1] =
                              [new EXCEPT !.pc = "failed", !.err = PickStart(key)]]
  /\ nRuns' = nRuns + 1
  /\ pendingLoad' = FALSE
  /\ UNCHANGED <<envVars, sideVars, booted, selectVars, chartVars, geoVars, pops, nPops>>

\* pickFilenameForKey lines 602-608 resumed by the outcome of the HEAD
\* request, then line 1084 issues the fetch of the chosen file; nothing
\* else resumes the function: no timer is set and the request is not
\* abortable
HeadDone(r, probe) ==
  /\ ~pendingLoad
  /\ probeAnswers
  /\ runs[r].pc = "head"
  /\ runs' = [runs EXCEPT ![r].pc = "fetch",
                          ![r].probe = probe,
                          ![r].fname = PickFilename(runs[r].key, probe)]
  /\ UNCHANGED <<envVars, sideVars, booted, pendingLoad, globalVars, selectVars, textVars,
                 chartVars, geoVars, nRuns, pops, nPops>>

\* lines 1084-1085 throwing into the catch block: the run ends, and the
\* error it ends with is the parser's, or 'No data rows found'
FailRun(r, out) ==
  runs' = [runs EXCEPT ![r].pc = "failed", ![r].fname = NoName,
                       ![r].probe = "none", ![r].parse = out,
                       ![r].err = IF out.t = "throw" THEN out.err.kind
                                  ELSE "NoRows"]

\* fetchRowsFromFile resumed by the answer to its GET, then lines
\* 1085-1128: the aggregation, and the drawing as well when the geography
\* is memoized (the one-element sets name a value computed once)
FetchDone(r, resp) ==
  /\ ~pendingLoad
  /\ runs[r].pc = "fetch"
  /\ \E res \in {fetchRowsFromFile(runs[r].fname, resp, xlsxLib)} :
     \E rows \in {IF res.t = "return" /\ HasRows(res.value) THEN res.value.rows
                  ELSE <<>>} :
     \E agg \in {IF rows = <<>> THEN NoAgg ELSE Aggregate(rows, selectedYear)} :
     LET out == Outcome(res, runs[r].fname, resp)
         rec == [runs[r] EXCEPT !.rows = rows, !.agg = agg, !.fname = NoName,
                                !.probe = "none", !.parse = out]
     IN IF rows = <<>>
        THEN /\ Catch
             /\ FailRun(r, out)
             /\ UNCHANGED <<globalVars, selectVars, chartVars>>
        ELSE /\ selectedYear' = agg.selectedYear
             /\ IF hasSelects
                THEN /\ yearOptions' = YearOptionsOf(agg.years)
                     /\ yearValue' = SetSelect(YearOptionsOf(agg.years),
                                               ToStr(agg.selectedYear))
                ELSE UNCHANGED <<yearOptions, yearValue>>
             /\ UNCHANGED <<diseaseKey, dsValue>>
             /\ IF geoCache
                THEN /\ Render(rec, agg.selectedYear, TotalText(agg))
                     /\ runs' = [runs EXCEPT ![r] = RenderedRun(rec)]
                ELSE /\ totalCasesEl' = TotalText(agg)
                     /\ runs' = [runs EXCEPT ![r] = [rec EXCEPT !.pc = "geo"]]
                     /\ UNCHANGED <<selectedInfoEl, appStatus, chartVars>>
  /\ UNCHANGED <<envVars, sideVars, booted, pendingLoad, geoVars, nRuns, pops, nPops>>

\* loadGeo lines 681-684 resumed by the answer, then lines 1129-1136
GeoDone(r, ok) ==
  /\ ~pendingLoad
  /\ runs[r].pc = "geo"
  /\ IF ok
     THEN /\ geoCache' = TRUE
          /\ geoFetches' = geoFetches + 1
          /\ Render(runs[r], selectedYear, totalCasesEl)
          /\ runs' = [runs EXCEPT ![r] = RenderedRun(@)]
     ELSE /\ Catch
          /\ runs' = [runs EXCEPT ![r].pc = "failed", ![r].err = "Geo"]
          /\ UNCHANGED <<geoVars, chartVars>>
  /\ UNCHANGED <<envVars, sideVars, booted, pendingLoad, globalVars, selectVars, nRuns,
                 pops, nPops>>

(* ---- populateYearSelectForDisease ---- *)
\* line 709-711: the year a row offers to the dropdown
PopRowYear(r) ==
  LET v == Or(Or(Or(Or(Col(r, "Year"), Col(r, "year")), Col(r, "YearReported")),
                 Col(r, "yearReported")), Null)
      n == ToNumber(v)
  IN IF IsFiniteNum(n) THEN n ELSE Null

\* lines 708-712
PopYearsOf(rows) ==
  LET m == [i \in 1..Len(rows) |-> PopRowYear(rows[i])]
      f == SelectSeq(m, Truthy)
  IN SortNum(Dedupe([i \in 1..Len(f) |-> f[i].n]))

\* '<option value="">No years</option>', lines 715 and 734
NoYearsOptions == <<(<<>>)>>

\* lines 702-705, up to the HEAD request of pickFilenameForKey, for a key
\* of datasetsMap: the header select offers no other
PopStart(key, thenLoad) ==
  /\ yearOptions' = <<>>
  /\ yearValue' = <<>>
  /\ pops' = [pops EXCEPT ![nPops + 1] =
                [IdlePop EXCEPT !.pc = "head", !.key = key, !.thenLoad = thenLoad]]
  /\ nPops' = nPops + 1

\* the init block, lines 1151-1155: without the year select the populate
\* call returns at once and its then-callback is queued
Boot ==
  /\ page = "map"
  /\ ~booted
  /\ booted' = TRUE
  /\ IF hasSelects
     THEN PopStart(diseaseKey, TRUE) /\ UNCHANGED <<pendingLoad, dsValue>>
     ELSE pendingLoad' = TRUE /\ UNCHANGED <<selectVars, pops, nPops>>
  /\ UNCHANGED <<envVars, sideVars, globalVars, textVars, chartVars, geoVars, runs, nRuns>>

\* the user picks another disease: the change handler of line 1148
ChangeDisease(k) ==
  /\ booted /\ hasSelects /\ ~pendingLoad
  /\ nPops < MaxPops
  /\ k # dsValue
  /\ dsValue' = k
  /\ PopStart(k, FALSE)
  /\ UNCHANGED <<envVars, sideVars, booted, pendingLoad, globalVars, textVars, chartVars,
                 geoVars, runs, nRuns>>

\* the user picks another year: no handler is registered for it
ChangeYear(v) ==
  /\ booted /\ hasSelects /\ ~pendingLoad
  /\ v \in Range(yearOptions)
  /\ v # yearValue
  /\ yearValue' = v
  /\ UNCHANGED <<envVars, sideVars, booted, pendingLoad, globalVars, dsValue, yearOptions,
                 textVars, chartVars, geoVars, runs, nRuns, pops, nPops>>

\* lines 705-707 resumed by the outcome of the HEAD request
PopHeadDone(p, probe) ==
  /\ ~pendingLoad
  /\ probeAnswers
  /\ pops[p].pc = "head"
  /\ pops' = [pops EXCEPT ![p].pc = "fetch",
                          ![p].fname = PickFilename(pops[p].key, probe)]
  /\ appStatus' = "detecting"
  /\ UNCHANGED <<envVars, sideVars, booted, pendingLoad, globalVars, selectVars,
                 totalCasesEl, selectedInfoEl, chartVars, geoVars, runs, nRuns, nPops>>

\* the value line 1153 leaves in the select when the init block goes on
ThenValue(options, value) ==
  IF Truthy(selectedYear) THEN SetSelect(options, ToStr(selectedYear)) ELSE value

\* lines 707-736 resumed by the file's answer, and for the init call the
\* then-callback of lines 1151-1154
\* the options of lines 720-725 are appended to whatever the select holds
\* when the call resumes; only lines 704, 715 and 733 empty it
PopFetchDone(p, resp) ==
  /\ ~pendingLoad
  /\ pops[p].pc = "fetch"
  /\ \E res \in {fetchRowsFromFile(pops[p].fname, resp, xlsxLib)} :
     \E years \in {IF res.t = "return" /\ res.value.t = "rows"
                   THEN PopYearsOf(res.value.rows) ELSE <<>>} :
     LET ok == res.t = "return" /\ res.value.t = "rows"
         opts == IF years = <<>> THEN NoYearsOptions
                 ELSE yearOptions \o YearOptionsOf(years)
         val == IF years = <<>> THEN <<>>
                ELSE IF Truthy(selectedYear) /\ Includes(years, ToNumber(selectedYear))
                     THEN SetSelect(opts, ToStr(selectedYear))
                     ELSE NumToStr(years[Len(years)])
     IN /\ yearOptions' = opts
        /\ yearValue' = IF pops[p].thenLoad THEN ThenValue(opts, val) ELSE val
        /\ appStatus' = IF ~ok THEN "error"
                        ELSE IF years = <<>> THEN "noyears" ELSE "years"
  /\ pendingLoad' = pops[p].thenLoad
  /\ pops' = [pops EXCEPT ![p].pc = "done", ![p].fname = NoName]
  /\ UNCHANGED <<envVars, sideVars, booted, globalVars, dsValue, totalCasesEl, selectedInfoEl,
                 chartVars, geoVars, runs, nRuns, nPops>>

(* ------------------ the CSV export: exportVisibleCSV ----------------- *)
\* Array.prototype.join
RECURSIVE Join(_, _)
Join(parts, sep) ==
  IF parts = <<>> THEN <<>>
  ELSE IF Len(parts) = 1 THEN parts[1]
  ELSE parts[1] \o sep \o Join(Tail(parts), sep)

\* s.replace(/"/g, '""')
RECURSIVE DoubleQuotes(_)
DoubleQuotes(s) ==
  IF s = <<>> THEN <<>>
  ELSE (IF Head(s) = "\"" THEN <<"\"", "\"">> ELSE <<Head(s)>>)
       \o DoubleQuotes(Tail(s))

Quoted(s) == <<"\"">> \o DoubleQuotes(s) \o <<"\"">>

\* the cell of a state and a year: pivot[st][yr] || 0 of line 950, read
\* back by line 1061 (and lines 1020 and 1022 for the table), as a string
CellText(h, st, yr) == NumToStr(GetOr0(h.pivot[st], yr))

StateHeader == <<"S", "t", "a", "t", "e">>

\* lines 1055-1062: the text made from the matrix chart
ChartCSV(h) ==
  LET xLabels == YearOptionsOf(h.years)
      header == Join(<<StateHeader>> \o xLabels, <<",">>)
      Row(st) == Join(<<Quoted(st)>> \o
                      [j \in 1..Len(h.years) |-> CellText(h, st, h.years[j])],
                      <<",">>)
  IN Join(<<header>> \o [i \in 1..Len(h.states) |-> Row(h.states[i])], <<"\n">>)

\* lines 1064-1067: the text made from the rows of the fallback table,
\* every th and td quoted
TableCSV(h) ==
  LET header == Join(<<Quoted(StateHeader)>> \o
                     [j \in 1..Len(h.years) |-> Quoted(NumToStr(h.years[j]))],
                     <<",">>)
      Row(st) == Join(<<Quoted(st)>> \o
                      [j \in 1..Len(h.years) |->
                         Quoted(CellText(h, st, h.years[j]))],
                      <<",">>)
  IN Join(<<header>> \o [i \in 1..Len(h.states) |-> Row(h.states[i])], <<"\n">>)

\* the click on downloadCSVHeader, line 1147: lines 1053-1070
ExportCSV ==
  /\ booted /\ hasSelects /\ ~pendingLoad
  /\ download' = IF heatmap.t = "matrix" THEN [t |-> "csv", text |-> ChartCSV(heatmap)]
                 ELSE IF heatmap.t = "table"
                 THEN [t |-> "csv", text |-> TableCSV(heatmap)]
                 ELSE [t |-> "alert"]
  /\ UNCHANGED <<envVars, booted, pendingLoad, globalVars, selectVars, textVars,
                 chartVars, geoVars, runs, nRuns, pops, nPops, statePage, indexPage>>

(* ------------- the delimited-text parser: lines 567-592 -------------- *)
\* String.prototype.split for a one-character separator
RECURSIVE SplitOn(_, _)
SplitOn(s, c) ==
  IF \A i \in 1..Len(s) : s[i] # c THEN <<s>>
  ELSE LET i == CHOOSE k \in 1..Len(s) :
                  s[k] = c /\ \A m \in 1..(k - 1) : s[m] # c
       IN <<SubSeq(s, 1, i - 1)>> \o SplitOn(SubSeq(s, i + 1, Len(s)), c)

\* the number of double quotes from position i to the end of the line
QuotesFrom(line, i) == Cardinality({k \in i..Len(line) : line[k] = "\""})

\* line 570: a comma splits the line when the rest of the line holds an
\* even number of double quotes
IsSeparator(line, i) == line[i] = "," /\ QuotesFrom(line, i + 1) % 2 = 0

\* a split at every comma, whatever surrounds it
SplitAtEveryComma(line) == SplitOn(line, ",")

\* line 571: line.split(re)
RECURSIVE SplitCols(_)
SplitCols(line) ==
  IF \A i \in 1..Len(line) : ~IsSeparator(line, i) THEN <<line>>
  ELSE LET i == CHOOSE k \in 1..Len(line) :
                  IsSeparator(line, k) /\ \A m \in 1..(k - 1) : ~IsSeparator(line, m)
       IN <<SubSeq(line, 1, i - 1)>> \o SplitCols(SubSeq(line, i + 1, Len(line)))

\* s.replace(/""/g, '"'): pairs are replaced from the left
RECURSIVE UndoubleQuotes(_)
UndoubleQuotes(s) ==
  IF Len(s) < 2 THEN s
  ELSE IF s[1] = "\"" /\ s[2] = "\"" THEN <<"\"">> \o UndoubleQuotes(SubSeq(s, 3, Len(s)))
  ELSE <<s[1]>> \o UndoubleQuotes(Tail(s))

\* JavaScript's trim also strips line terminators
IsBlankChar(c) == c \in {" ", "\t", "\n", "\r"}
RECURSIVE TrimAll(_)
TrimAll(s) ==
  IF s = <<>> THEN s
  ELSE IF IsBlankChar(s[1]) THEN TrimAll(Tail(s))
  ELSE IF IsBlankChar(s[Len(s)]) THEN TrimAll(SubSeq(s, 1, Len(s) - 1))
  ELSE s

\* lines 572-574: one column
CsvCol(c) ==
  LET v == TrimAll(c)
  IN IF Len(v) >= 1 /\ v[1] = "\"" /\ v[Len(v)] = "\""
     THEN UndoubleQuotes(SubSeq(v, 2, Len(v) - 1))
     ELSE v

\* lines 567-577
csvLineToCols(line) ==
  LET parts == SplitCols(line) IN [i \in 1..Len(parts) |-> CsvCol(parts[i])]

\* line 581: split(/\r?\n/) and the lines that are not blank
StripCR(l) == IF l # <<>> /\ l[Len(l)] = "\r" THEN SubSeq(l, 1, Len(l) - 1) ELSE l
NotBlank(l) == TrimAll(l) # <<>>
CsvLines(text) ==
  LET ls == SplitOn(text, "\n")
  IN SelectSeq([i \in 1..Len(ls) |-> IF i < Len(ls) THEN StripCR(ls[i]) ELSE ls[i]],
               NotBlank)

\* lines 585-589: the row of one line, a later column of the same header
\* replacing an earlier one
CsvRow(headers, cols) ==
  [h \in Range(headers) |->
     LET j == CHOOSE k \in 1..Len(headers) :
                headers[k] = h /\ \A m \in (k + 1)..Len(headers) : headers[m] # h
     IN IF j <= Len(cols) THEN Str(cols[j]) ELSE Null]

\* lines 580-592
parseCSV(text) ==
  LET lines == CsvLines(text)
  IN IF lines = <<>> THEN <<>>
     ELSE [i \in 1..(Len(lines) - 1) |->
             CsvRow(csvLineToCols(lines[1]), csvLineToCols(lines[i + 1]))]

(* --------------------------- inputs and Init -------------------------- *)
Ohio == <<"O", "h", "i", "o">>
Utah == <<"U", "t", "a", "h">>
Maine == <<"M", "a", "i", "n", "e">>
TexasPadded == <<" ", "T", "e", "x", "a", "s", " ">>
Texas == <<"T", "e", "x", "a", "s">>

\* the rows the dataset files are built from: the spec's scenarios A, B, C
\* and E, lowercase column names, rows without a state, without a year or
\* without a case count, rows that spell a column both ways, a row whose
\* year sits under another header, and a negative count
RowPool == {
  [State |-> Str(Ohio), Year |-> Num(2019), Cases |-> Num(10)],
  [State |-> Str(Ohio), Year |-> Num(2019), Cases |-> Num(5)],
  [State |-> Str(TexasPadded), Year |-> Str(<<"2", "0", "2", "0">>),
   Cases |-> Str(<<"b", "a", "d">>)],
  [state |-> Str(Maine)],
  [State |-> Str(Utah), Year |-> Num(2000), Cases |-> Num(3)],
  [State |-> Str(Utah), Year |-> Num(2001), Cases |-> Num(4)],
  [state |-> Str(Utah), year |-> Str(<<"2", "0", "0", "1">>), cases |-> Str(<<"6">>)],
  [Year |-> Num(2019), Cases |-> Num(7)],
  [State |-> Str(Ohio), Year |-> Str(<<"n", "/", "a">>), Cases |-> Num(2)],
  [State |-> Str(Ohio), Year |-> Num(2019)],
  [State |-> Str(<<" ", " ">>), Year |-> Num(2000), Cases |-> Num(1)],
  [State |-> Str(Texas), Year |-> Num(0), Cases |-> Num(9)],
  \* both spellings of every column, the exact-case values usable
  [State |-> Str(Ohio), state |-> Str(Utah), Year |-> Num(2019),
   year |-> Num(2000), Cases |-> Num(10), cases |-> Num(5)],
  \* both spellings of Cases, the exact-case count 0
  [State |-> Str(Ohio), Year |-> Num(2019), Cases |-> Num(0), cases |-> Num(5)],
  \* both spellings of State and Year, the exact-case cells empty
  [State |-> Str(<<>>), state |-> Str(Maine), Year |-> Str(<<>>),
   year |-> Num(2001), Cases |-> Num(1)],
  \* the year under another header
  [State |-> Str(Ohio), YearReported |-> Num(2005), Cases |-> Num(4)],
  \* a negative case count
  [State |-> Str(Ohio), Year |-> Num(2019), Cases |-> Num(-5)]
}

RECURSIVE SeqsUpTo(_, _)
SeqsUpTo(S, n) ==
  IF n = 0 THEN {<<>>}
  ELSE LET shorter == SeqsUpTo(S, n - 1)
       IN shorter \cup {Append(q, x) : q \in shorter, x \in S}

\* the year the page is asked for: the year parameter of the URL, or the
\* default of line 512, last year as a number
RequestedYears == {
  Str(<<"1", "9", "9", "9">>), Str(<<"2", "0", "1", "9">>),
  Str(<<"2", "0", "0", "0">>), Str(<<" ", "2", "0", "0", "1">>), Num(2025)
}

\* the dataset files of the full page
PageFiles == {
  [k \in Keys |->
     IF k = "HIV"
     THEN << [State |-> Str(Ohio), Year |-> Num(2019), Cases |-> Num(10)],
             [State |-> Str(Utah), Year |-> Num(2019), Cases |-> Num(3)],
             [State |-> Str(Utah), Year |-> Num(2001), Cases |-> Num(4)] >>
     ELSE << [State |-> Str(TexasPadded), Year |-> Str(<<"2", "0", "2", "0">>),
              Cases |-> Num(7)],
             [State |-> Str(Ohio), Year |-> Num(2019), Cases |-> Num(2)] >>]
}

\* the state the declarations of lines 510-675 leave, before the init block
InitPage ==
  /\ booted = FALSE
  /\ pendingLoad = FALSE
  /\ dsValue = diseaseKey
  /\ yearOptions = <<>>
  /\ yearValue = <<>>
  /\ totalCasesEl = Blank
  /\ selectedInfoEl = Blank
  /\ appStatus = "none"
  /\ mapLayer = NoChart
  /\ barChart = NoChart
  /\ lineChart = NoChart
  /\ histChart = NoChart
  /\ heatmap = NoChart
  /\ legendWrap = NoChart
  /\ geoCache = FALSE
  /\ geoFetches = 0
  /\ runs = [r \in 1..MaxRuns |-> IdleRun]
  /\ nRuns = 0
  /\ pops = [p \in 1..MaxPops |-> IdlePop]
  /\ nPops = 0
  /\ download = NoDownload
  /\ statePage = IdleStatePage
  /\ indexPage = IdleIndexPage

(* ---------------- the state report page: state.js ---------------- *)
\* part_001 line 117: the state parameter of the page's URL
stateParam == Str(Ohio)

\* part_001 lines 178-202: the value fetchRows returns or the error it
\* throws; only the .json branch looks at r.ok, and XLSX is used as it is
fetchRows(name, resp, xlsx) ==
  IF name = <<>> THEN Thrown(Err("NoFilename"), FALSE)
  ELSE IF resp.t = "rejected" THEN Thrown(Err("Network"), FALSE)
  ELSE IF EndsWith(ToLower(name), DotJson)
  THEN IF ~RespOk(resp) THEN Thrown(FetchFailed(resp.status), FALSE)
       ELSE IF resp.body.t = "junk" THEN Thrown(Err("SyntaxError"), TRUE)
       ELSE Returned(resp.body, TRUE)
  ELSE IF EndsWith(ToLower(name), DotCsv)
  THEN Returned(RowsBody(CsvRowsOf(resp.body)), TRUE)
  ELSE IF ~xlsx THEN Thrown(Err("ReferenceError"), FALSE)
  ELSE IF resp.body.t # "rows" THEN Thrown(Err("XLSXParse"), TRUE)
  ELSE Returned(resp.body, TRUE)

\* String.prototype.includes
StrIncludes(s, sub) ==
  \E i \in 0..(Len(s) - Len(sub)) : SubSeq(s, i + 1, i + Len(sub)) = sub

\* part_001 lines 265-268: the rows of the requested state, by equality of
\* the trimmed lowercase names and failing that by inclusion
RawState(r) == ToStr(Or(Or(Col(r, "State"), Col(r, "state")), Str(<<>>)))
StateIs(r) == ToLower(Trim(RawState(r))) = ToLower(Trim(ToStr(stateParam)))
StateHas(r) == StrIncludes(ToLower(RawState(r)), ToLower(ToStr(stateParam)))
StateRowsOf(rows) ==
  IF SelectSeq(rows, StateIs) # <<>> THEN SelectSeq(rows, StateIs)
  ELSE SelectSeq(rows, StateHas)

\* part_001 lines 283-285: one point per row with a year, sorted by year
TsPoint(r) == [year |-> RowYear(r), cases |-> RowCases(r)]
HasYear(pt) == pt.year.k = "num"
RECURSIVE InsertPoint(_, _)
InsertPoint(sorted, pt) ==
  IF sorted = <<>> THEN <<pt>>
  ELSE IF pt.year.n < Head(sorted).year.n THEN <<pt>> \o sorted
  ELSE <<Head(sorted)>> \o InsertPoint(Tail(sorted), pt)
RECURSIVE SortPoints(_)
SortPoints(pts) ==
  IF pts = <<>> THEN <<>>
  ELSE InsertPoint(SortPoints(SubSeq(pts, 1, Len(pts) - 1)), pts[Len(pts)])
TsOf(stateRows) ==
  SortPoints(SelectSeq([i \in 1..Len(stateRows) |-> TsPoint(stateRows[i])], HasYear))

\* part_001 lines 375-381: the catch block of loadState
StateCatch(rec, err) ==
  [rec EXCEPT !.pc = "failed", !.fname = NoName,
              !.rawTable = [t |-> "error", err |-> err],
              !.stateMap = "unavailable"]

\* part_001 lines 258-260, up to the HEAD request of pickFilenameForKey
StateLoad ==
  /\ page = "state"
  /\ statePage.pc = "idle"
  /\ statePage' = IF PickStart(diseaseKey) = "probe"
                  THEN [statePage EXCEPT !.pc = "head"]
                  ELSE StateCatch(statePage, PickStart(diseaseKey))
  /\ UNCHANGED <<envVars, booted, pendingLoad, globalVars, selectVars, textVars,
                 chartVars, geoVars, runs, nRuns, pops, nPops, download, indexPage>>

\* part_001 lines 170-174 resumed by the outcome of the HEAD request, up
\* to the GET of fetchRows
StateHeadDone(probe) ==
  /\ probeAnswers
  /\ statePage.pc = "head"
  /\ statePage' = [statePage EXCEPT !.pc = "fetch",
                                    !.fname = PickFilename(diseaseKey, probe)]
  /\ UNCHANGED <<envVars, booted, pendingLoad, globalVars, selectVars, textVars,
                 chartVars, geoVars, runs, nRuns, pops, nPops, download, indexPage>>

\* fetchRows resumed by the answer to its GET, then part_001 lines
\* 264-290 up to the request for the geography; a value that is no array
\* has no filter method
StateFetchDone(resp) ==
  /\ statePage.pc = "fetch"
  /\ LET res == fetchRows(statePage.fname, resp, xlsxLib)
         rec == [statePage EXCEPT !.parse = Outcome(res, statePage.fname, resp),
                                  !.fname = NoName]
         stateRows == StateRowsOf(res.value.rows)
     IN statePage' =
          IF res.t = "throw" THEN StateCatch(rec, res.err.kind)
          ELSE IF res.value.t # "rows" THEN StateCatch(rec, "TypeError")
          ELSE IF stateRows = <<>>
          THEN [rec EXCEPT !.pc = "done", !.rawTable = [t |-> "nodata"]]
          ELSE [rec EXCEPT !.pc = "geo",
                           !.rawTable = [t |-> "rows", rows |-> stateRows],
                           !.ts = TsOf(stateRows)]
  /\ UNCHANGED <<envVars, booted, pendingLoad, globalVars, selectVars, textVars,
                 chartVars, geoVars, runs, nRuns, pops, nPops, download, indexPage>>

\* part_001 lines 290-374 resumed by the geography or by its failure: the
\* map, the summary and the charts; `new Chart` throws without Chart
StateGeoDone(ok) ==
  /\ statePage.pc = "geo"
  /\ LET ts == statePage.ts
         rec == [statePage EXCEPT
                   !.stateMap = IF ok THEN "map" ELSE @,
                   !.summary = IF ts = <<>> THEN [t |-> "empty"]
                               ELSE [t |-> "latest", point |-> ts[Len(ts)]]]
     IN statePage' = IF chartLib THEN [rec EXCEPT !.pc = "done", !.charts = TRUE]
                     ELSE StateCatch(rec, "ReferenceError")
  /\ UNCHANGED <<envVars, booted, pendingLoad, globalVars, selectVars, textVars,
                 chartVars, geoVars, runs, nRuns, pops, nPops, download, indexPage>>

(* ------------------- the landing page: script.js ------------------- *)
\* the columns of the dataset files in the order of their header row
ColumnOrder == <<"State", "state", "Year", "year", "YearReported", "Cases",
                 "cases", "junk">>
InColumnOrder(r) ==
  LET Has(c) == c \in DOMAIN r IN SelectSeq(ColumnOrder, Has)

\* script.js lines 118-123: the first column holding a year-like number
RECURSIVE YearLikeValue(_, _)
YearLikeValue(r, cols) ==
  IF cols = <<>> THEN Null
  ELSE LET v == r[Head(cols)]
           num == ToNumber(v)
       IN IF v.k \notin {"null", "undefined"} /\ num.k = "num"
             /\ num.n > 1900 /\ num.n < 2100
          THEN num
          ELSE YearLikeValue(r, Tail(cols))

\* script.js lines 114-127: the year a row adds to the set, or none
IndexRowYear(r) ==
  LET val == IF "Year" \in DOMAIN r THEN r["Year"]
             ELSE IF "year" \in DOMAIN r THEN r["year"]
             ELSE YearLikeValue(r, InColumnOrder(r))
  IN IF val.k \in {"null", "undefined"} THEN Null ELSE ToNumber(val)

\* script.js lines 112-130
IndexYearsOf(rows) ==
  LET m == [i \in 1..Len(rows) |-> IndexRowYear(rows[i])]
      f == SelectSeq(m, IsNum)
  IN SortNum(Dedupe([i \in 1..Len(f) |-> f[i].n]))

\* script.js lines 88-104, up to the GET of the first candidate
IndexPopulate(k) ==
  /\ page = "index"
  /\ indexPage.pc = "idle"
  /\ indexPage' = [indexPage EXCEPT !.pc = "json", !.key = k,
                                    !.fetched = <<JsonName(k)>>,
                                    !.options = <<(<<>>)>>,
                                    !.status = "loading"]
  /\ UNCHANGED <<envVars, booted, pendingLoad, globalVars, selectVars, textVars,
                 chartVars, geoVars, runs, nRuns, pops, nPops, download, statePage>>

\* script.js lines 61-79 for one candidate and the answer to its GET: the
\* rows it yields, or nothing when the loop goes on to the next candidate
CandidateRows(c, resp, xlsx) ==
  IF resp.t = "rejected" \/ ~RespOk(resp) THEN <<>>
  ELSE IF EndsWith(ToLower(c), DotJson)
  THEN IF resp.body.t = "rows" THEN resp.body.rows ELSE <<>>
  ELSE IF ~xlsx THEN <<>>
  ELSE IF resp.body.t = "rows" THEN resp.body.rows ELSE <<>>

\* script.js lines 64-72: the body of this answer is handed to a decoder
CandidateDecoded(c, resp, xlsx) ==
  /\ resp.t = "answer" /\ RespOk(resp)
  /\ EndsWith(ToLower(c), DotJson) \/ xlsx

\* the loop of fetchRowsFromCandidates resumed by the answer to the GET of
\* its current candidate, and when it returns script.js lines 98-158
IndexCandidateDone(resp) ==
  /\ indexPage.pc \in {"json", "base"}
  /\ LET c == indexPage.fetched[Len(indexPage.fetched)]
         rows == CandidateRows(c, resp, xlsxLib)
         years == IndexYearsOf(rows)
         rec == [indexPage EXCEPT
                   !.answers = @ \o <<resp.status>>,
                   !.decoded = IF CandidateDecoded(c, resp, xlsxLib)
                               THEN @ \cup {c} ELSE @]
     IN indexPage' =
          IF rows = <<>> /\ indexPage.pc = "json"
          THEN [rec EXCEPT !.pc = "base",
                           !.fetched = @ \o <<BaseName(indexPage.key)>>]
          ELSE IF rows = <<>>
          THEN [rec EXCEPT !.pc = "done", !.result = "null",
                           !.options = <<(<<>>)>>, !.status = "nofile"]
          ELSE IF years = <<>>
          THEN [rec EXCEPT !.pc = "done", !.result = "rows",
                           !.options = <<(<<>>)>>, !.status = "noyearcolumn"]
          ELSE [rec EXCEPT !.pc = "done", !.result = "rows",
                           !.options = <<(<<>>)>> \o YearOptionsOf(years),
                           !.value = IF years[1] # 0 THEN NumToStr(years[1])
                                     ELSE <<>>,
                           !.status = IF years[1] # 0 THEN "autoselected"
                                      ELSE "loading"]
  /\ UNCHANGED <<envVars, booted, pendingLoad, globalVars, selectVars, textVars,
                 chartVars, geoVars, runs, nRuns, pops, nPops, download, statePage>>

\* the answers to the GET of a dataset file: the file, or a 404
FileOf(key) == Served(IF key \in Keys THEN files[key] ELSE <<>>)
PageResponses(key) == {FileOf(key), NotFound}

\* no loadAll invocation is between its first and its last step
NoLoadInFlight == \A r \in 1..MaxRuns : runs[r].pc \in {"idle", "done", "failed"}

\* the server of the full page holds the spreadsheets only: every HEAD
\* request for a pre-converted file is answered 404
PageProbes == {"status"}

\* the map page with its header: selects and Load button
Init ==
  /\ files \in PageFiles
  /\ page = "map"
  /\ hasSelects = TRUE
  /\ chartLib \in BOOLEAN
  /\ diseaseKey = "HIV"
  /\ selectedYear = Num(2025)
  /\ xlsxLib = TRUE
  /\ matrixLib = TRUE
  /\ probeAnswers = TRUE
  /\ InitPage

Next ==
  \/ Boot
  \/ LoadAllStart
  \/ \E k \in Keys : ChangeDisease(k)
  \/ \E v \in Range(yearOptions) : ChangeYear(v)
  \/ \E r \in 1..MaxRuns, probe \in PageProbes : HeadDone(r, probe)
  \/ \E r \in 1..MaxRuns : \E resp \in PageResponses(runs[r].key) : FetchDone(r, resp)
  \/ \E r \in 1..MaxRuns, ok \in BOOLEAN : GeoDone(r, ok)
  \/ \E p \in 1..MaxPops, probe \in PageProbes : PopHeadDone(p, probe)
  \/ \E p \in 1..MaxPops : \E resp \in PageResponses(pops[p].key) : PopFetchDone(p, resp)

Spec == Init /\ [][Next]_vars

\* any of the three pages opened for a disease of the table, with or
\* without the XLSX library, against a server that answers the GET of a
\* dataset file in every way: no answer, the file, an error status with
\* or without a readable body, a JSON value that is no array, bytes that
\* are no file of the format, an empty row list
ParseResponses(key) ==
  {Rejected, FileOf(key), NotFound, Answer(503, FileOf(key).body),
   Answer(200, ObjectBody), Answer(200, JunkBody), Served(<<>>)}

InitParse ==
  /\ files \in PageFiles
  /\ page \in {"map", "state", "index"}
  /\ hasSelects = FALSE
  /\ chartLib \in BOOLEAN
  /\ diseaseKey \in Keys
  /\ selectedYear = Num(2025)
  /\ xlsxLib \in BOOLEAN
  /\ matrixLib = TRUE
  /\ probeAnswers = TRUE
  /\ InitPage

NextParse ==
  \/ Boot
  \/ LoadAllStart
  \/ \E r \in 1..MaxRuns, probe \in ProbeOutcomes : HeadDone(r, probe)
  \/ \E r \in 1..MaxRuns : \E resp \in ParseResponses(runs[r].key) : FetchDone(r, resp)
  \/ \E r \in 1..MaxRuns, ok \in BOOLEAN : GeoDone(r, ok)
  \/ StateLoad
  \/ \E probe \in ProbeOutcomes : StateHeadDone(probe)
  \/ \E resp \in ParseResponses(diseaseKey) : StateFetchDone(resp)
  \/ \E ok \in BOOLEAN : StateGeoDone(ok)
  \/ \E k \in Keys : IndexPopulate(k)
  \/ \E resp \in ParseResponses(indexPage.key) : IndexCandidateDone(resp)

SpecParse == InitParse /\ [][NextParse]_vars

\* the map page with its header whose user changes the selects and never
\* clicks Load: loadAll is called by the init block only.  The steps of
\* the page and of the server are taken when they can be; the user's are
\* not owed.
PageStep ==
  \/ Boot
  \/ (pendingLoad /\ LoadAllStart)
  \/ \E r \in 1..MaxRuns, probe \in PageProbes : HeadDone(r, probe)
  \/ \E r \in 1..MaxRuns : FetchDone(r, NotFound)
  \/ \E r \in 1..MaxRuns : FetchDone(r, FileOf(runs[r].key))
  \/ \E r \in 1..MaxRuns, ok \in BOOLEAN : GeoDone(r, ok)
  \/ \E p \in 1..MaxPops, probe \in PageProbes : PopHeadDone(p, probe)
  \/ \E p \in 1..MaxPops : PopFetchDone(p, NotFound)
  \/ \E p \in 1..MaxPops : PopFetchDone(p, FileOf(pops[p].key))

NextSelect ==
  \/ PageStep
  \/ \E k \in Keys : ChangeDisease(k)
  \/ \E v \in Range(yearOptions) : ChangeYear(v)

SpecSelect == Init /\ [][NextSelect]_vars
FairSelect == SpecSelect /\ WF_vars(PageStep)

\* the rows of the dataset file in the runs that export the heatmap:
\* state names with a comma, with double quotes, with both
CommaName == <<"N", ",", "Y">>
QuotedName == <<"\"", "K", "\"">>
BothName == <<"a", "\"", ",", "b">>
ExportPool == {
  [State |-> Str(Ohio), Year |-> Num(2019), Cases |-> Num(10)],
  [State |-> Str(CommaName), Year |-> Num(2019), Cases |-> Num(3)],
  [State |-> Str(QuotedName), Year |-> Num(2020), Cases |-> Num(4)],
  [State |-> Str(BothName), Year |-> Num(2020), Cases |-> Num(12)],
  [State |-> Str(Utah), Year |-> Num(2020), Cases |-> Num(0)]
}

\* the page with its header, with or without the matrix controller; the
\* user clicks Load when no load is in flight and Download at any time
InitExport ==
  /\ \E rows \in SeqsUpTo(ExportPool, MaxRows) :
       files = [k \in Keys |-> IF k = "HIV" THEN rows ELSE <<>>]
  /\ page = "map"
  /\ hasSelects = TRUE
  /\ chartLib = TRUE
  /\ diseaseKey = "HIV"
  /\ selectedYear = Num(2025)
  /\ xlsxLib = TRUE
  /\ matrixLib \in BOOLEAN
  /\ probeAnswers = TRUE
  /\ InitPage

NextExport ==
  \/ Boot
  \/ (NoLoadInFlight /\ LoadAllStart)
  \/ \E r \in 1..MaxRuns, probe \in PageProbes : HeadDone(r, probe)
  \/ \E r \in 1..MaxRuns : FetchDone(r, FileOf(runs[r].key))
  \/ \E r \in 1..MaxRuns : GeoDone(r, TRUE)
  \/ \E p \in 1..MaxPops, probe \in PageProbes : PopHeadDone(p, probe)
  \/ \E p \in 1..MaxPops : PopFetchDone(p, FileOf(pops[p].key))
  \/ ExportCSV

SpecExport == InitExport /\ [][NextExport]_vars

\* one load of one dataset on a page without the header selects: the
\* aggregation applied to every row list and requested year of the bounds
InitAgg ==
  /\ \E rows \in SeqsUpTo(RowPool, MaxRows) :
       files = [k \in Keys |-> IF k = "HIV" THEN rows ELSE <<>>]
  /\ page = "map"
  /\ hasSelects = FALSE
  /\ chartLib = TRUE
  /\ diseaseKey = "HIV"
  /\ selectedYear \in RequestedYears
  /\ xlsxLib = TRUE
  /\ matrixLib = TRUE
  /\ probeAnswers = TRUE
  /\ InitPage

NextAgg ==
  \/ Boot
  \/ LoadAllStart
  \/ \E r \in 1..MaxRuns, probe \in ProbeOutcomes : HeadDone(r, probe)
  \/ \E r \in 1..MaxRuns : FetchDone(r, FileOf(runs[r].key))
  \/ \E r \in 1..MaxRuns : GeoDone(r, TRUE)

SpecAgg == InitAgg /\ [][NextAgg]_vars

\* the rows of the dataset file in the runs that load it repeatedly
ReloadPool == {
  [State |-> Str(Ohio), Year |-> Num(2019), Cases |-> Num(10)],
  [State |-> Str(Utah), Year |-> Num(2000), Cases |-> Num(3)],
  [State |-> Str(Utah), Year |-> Num(2001), Cases |-> Num(4)],
  [state |-> Str(Maine)]
}

\* the page with its header, opened with any year parameter; the user
\* touches no select and clicks Load again each time a load has ended
InitReload ==
  /\ \E rows \in SeqsUpTo(ReloadPool, MaxRows) :
       files = [k \in Keys |-> IF k = "HIV" THEN rows ELSE <<>>]
  /\ page = "map"
  /\ hasSelects = TRUE
  /\ chartLib = TRUE
  /\ diseaseKey = "HIV"
  /\ selectedYear \in RequestedYears
  /\ xlsxLib = TRUE
  /\ matrixLib = TRUE
  /\ probeAnswers = TRUE
  /\ InitPage

NextReload ==
  \/ Boot
  \/ (NoLoadInFlight /\ LoadAllStart)
  \/ \E r \in 1..MaxRuns, probe \in ProbeOutcomes : HeadDone(r, probe)
  \/ \E r \in 1..MaxRuns : FetchDone(r, FileOf(runs[r].key))
  \/ \E r \in 1..MaxRuns : GeoDone(r, TRUE)
  \/ \E p \in 1..MaxPops, probe \in ProbeOutcomes : PopHeadDone(p, probe)
  \/ \E p \in 1..MaxPops : PopFetchDone(p, FileOf(pops[p].key))

SpecReload == InitReload /\ [][NextReload]_vars

\* the page without the header selects opened with any disease parameter:
\* one load, its file name resolved for a key of the table or for another
InitResolve ==
  /\ files \in PageFiles
  /\ page = "map"
  /\ hasSelects = FALSE
  /\ chartLib \in BOOLEAN
  /\ diseaseKey \in Keys \cup {UnknownKey, InheritedKey}
  /\ selectedYear \in RequestedYears
  /\ xlsxLib = TRUE
  /\ matrixLib = TRUE
  /\ probeAnswers \in BOOLEAN
  /\ InitPage

NextResolve ==
  \/ Boot
  \/ LoadAllStart
  \/ \E r \in 1..MaxRuns, probe \in ProbeOutcomes : HeadDone(r, probe)
  \/ \E r \in 1..MaxRuns : FetchDone(r, NotFound)
  \/ \E r \in 1..MaxRuns : FetchDone(r, FileOf(runs[r].key))
  \/ \E r \in 1..MaxRuns, ok \in BOOLEAN : GeoDone(r, ok)

SpecResolve == InitResolve /\ [][NextResolve]_vars

\* the same page with its progress guaranteed: the browser runs every
\* callback that is due and the server answers every request it answers
\* at all
FairResolve == SpecResolve /\ WF_vars(NextResolve)

(* ------------------------------- claims ------------------------------- *)
\* the runs that have aggregated their rows
RunsWithAgg == {r \in 1..MaxRuns : runs[r].agg # NoAgg}

\* a row yields a usable state and a usable year
Survives(r) == RowState(r) # <<>> /\ Truthy(RowYear(r))
Survivors(rows) == {i \in 1..Len(rows) : Survives(rows[i])}
\* the surviving rows of one (state, year) cell
Cell(rows, s, y) ==
  {i \in Survivors(rows) : RowState(rows[i]) = s /\ RowYear(rows[i]).n = y}

RECURSIVE CasesSum(_, _)
CasesSum(rows, I) ==
  IF I = {} THEN 0
  ELSE LET i == CHOOSE j \in I : TRUE
       IN RowCases(rows[i]) + CasesSum(rows, I \ {i})

PivotCells(pivot) ==
  UNION {{<<s, y>> : y \in DOMAIN pivot[s]} : s \in DOMAIN pivot}

RECURSIVE CellSum(_, _)
CellSum(pivot, cells) ==
  IF cells = {} THEN 0
  ELSE LET c == CHOOSE d \in cells : TRUE
       IN pivot[c[1]][c[2]] + CellSum(pivot, cells \ {c})

\* C1: pivot[state][year] is the sum of the cases of all surviving rows of
\* that state and year, and a cell exists exactly when such a row does:
\* rows of the same state and year add up, none replaces another.
C1_PivotCellIsSum ==
  \A r \in RunsWithAgg :
    LET a == runs[r].agg
        rows == runs[r].rows
    IN /\ \A i \in Survivors(rows) :
            LET s == RowState(rows[i])
                y == RowYear(rows[i]).n
            IN /\ s \in DOMAIN a.pivot
               /\ y \in DOMAIN a.pivot[s]
               /\ a.pivot[s][y] = CasesSum(rows, Cell(rows, s, y))
       /\ \A s \in DOMAIN a.pivot : \A y \in DOMAIN a.pivot[s] : Cell(rows, s, y) # {}

\* scenario A: two rows of one cell, 10 and 5, give 15
C1_Witness ==
  \E r \in RunsWithAgg :
    /\ Cardinality(Cell(runs[r].rows, Ohio, 2019)) = 2
    /\ runs[r].agg.pivot[Ohio][2019] = 15

\* C2: the sum of all pivot cells equals the sum of the cases of all
\* surviving rows: no retained observation is dropped or counted twice.
C2_PivotTotalIsSurvivorTotal ==
  \A r \in RunsWithAgg :
    CellSum(runs[r].agg.pivot, PivotCells(runs[r].agg.pivot))
      = CasesSum(runs[r].rows, Survivors(runs[r].rows))

\* two surviving rows in different cells, both with cases
C2_Witness ==
  \E r \in RunsWithAgg :
    /\ Cardinality(PivotCells(runs[r].agg.pivot)) = 2
    /\ Cardinality(Survivors(runs[r].rows)) = 2
    /\ CellSum(runs[r].agg.pivot, PivotCells(runs[r].agg.pivot)) = 7

\* C3 as claimed: a row without a usable state or year leaves no trace:
\* states, years, the pivot, the snapshot and the per-year totals of the
\* line chart come from the surviving rows alone.
C3_DroppedRowsLeaveNoTrace ==
  \A r \in RunsWithAgg :
    LET a == runs[r].agg
        rows == runs[r].rows
        S == Survivors(rows)
        series == YearAggOf(rows)
    IN /\ Range(a.states) = {RowState(rows[i]) : i \in S}
       /\ Range(a.years) = {RowYear(rows[i]).n : i \in S}
       /\ DOMAIN a.pivot = {RowState(rows[i]) : i \in S}
       /\ DOMAIN a.stateValues = {RowState(rows[i]) : i \in S}
       /\ DOMAIN series = {RowYear(rows[i]).n : i \in S}
       /\ \A y \in DOMAIN series :
            series[y] = CasesSum(rows, {i \in S : RowYear(rows[i]).n = y})

\* C4 as claimed: when no row survives, the run fails: it produces no
\* aggregate and draws nothing.
C4_NoSurvivorFails ==
  \A r \in 1..MaxRuns :
    Survivors(runs[r].rows) = {} =>
      /\ runs[r].agg = NoAgg
      /\ runs[r].drawn = {}
      /\ runs[r].pc \in {"idle", "head", "fetch", "failed"}

\* C5: with a non-empty year list, a requested year that is in the list is
\* the resolved year, and any other request resolves to the largest year.
C5_YearFallback ==
  \A r \in RunsWithAgg :
    LET a == runs[r].agg
        want == ToNumber(runs[r].req)
        top == CHOOSE y \in Range(a.years) : \A z \in Range(a.years) : z <= y
    IN a.years # <<>> =>
         IF IsNum(want) /\ want.n \in Range(a.years)
         THEN ToNumber(a.selectedYear) = want
         ELSE a.selectedYear = Num(top)

\* scenario D: a request outside a list of two years resolves to the later
C5_Witness ==
  \E r \in RunsWithAgg :
    /\ runs[r].req = Str(<<"1", "9", "9", "9">>)
    /\ runs[r].agg.years = <<2000, 2001>>
    /\ runs[r].agg.selectedYear = Num(2001)

\* the run started last
Newest == runs[nRuns]
AllRunsDone == \A r \in 1..nRuns : runs[r].pc = "done"

\* C6 as claimed: once every load has completed, the newest load is the one
\* on display: the total, the bar chart, the map and the heatmap are the
\* ones it computed.
C6_NewestLoadWins ==
  (nRuns >= 2 /\ AllRunsDone) =>
    /\ totalCasesEl = TotalText(Newest.agg)
    /\ barChart.values = Newest.agg.stateValues
    /\ mapLayer.values = Newest.agg.stateValues
    /\ heatmap.pivot = Newest.agg.pivot

\* C7 as claimed: the geography file is fetched successfully at most once.
C7_GeoFetchedOnce == geoFetches <= 1

\* C8 as claimed: the step that fails a load leaves the failure placeholder
\* in the totals and no chart of an earlier successful load on display.
C8_FailureClearsCharts ==
  [][chartLib =>
       \A r \in 1..MaxRuns :
         (runs[r].pc # "failed" /\ runs'[r].pc = "failed") =>
           /\ totalCasesEl' = FailedText
           /\ mapLayer' = NoChart
           /\ barChart' = NoChart
           /\ lineChart' = NoChart
           /\ histChart' = NoChart
           /\ heatmap' = NoChart
           /\ legendWrap' = NoChart]_vars

\* C9 as claimed: a load that has ended ran all six drawing steps or none.
C9_AllOrNothing ==
  \A r \in 1..MaxRuns :
    runs[r].pc \in {"done", "failed"} => runs[r].drawn \in {{}, AllSteps}

\* the case count of a row is absent or does not parse
CasesUnusable(r) == ToNumber(Or(Col(r, "Cases"), Col(r, "cases"))) = NaN

\* C10: a row with a usable state and year whose case count is absent or
\* unparseable is retained with cases 0: its state is in states, its year
\* in years, and its pivot cell exists and holds what the other rows of
\* the cell add up to.
C10_UnparseableCasesKept ==
  \A r \in RunsWithAgg :
    LET a == runs[r].agg
        rows == runs[r].rows
    IN \A i \in 1..Len(rows) :
         (Survives(rows[i]) /\ CasesUnusable(rows[i])) =>
           LET s == RowState(rows[i])
               y == RowYear(rows[i]).n
           IN /\ RowCases(rows[i]) = 0
              /\ s \in Range(a.states)
              /\ y \in Range(a.years)
              /\ s \in DOMAIN a.pivot
              /\ y \in DOMAIN a.pivot[s]
              /\ a.pivot[s][y] = CasesSum(rows, Cell(rows, s, y) \ {i})

\* scenario B: the only row is " Texas ", "2020", "bad"
C10_Witness ==
  \E r \in RunsWithAgg :
    /\ Len(runs[r].rows) = 1
    /\ CasesUnusable(runs[r].rows[1])
    /\ runs[r].agg.states = <<Texas>>
    /\ runs[r].agg.years = <<2020>>
    /\ runs[r].agg.pivot[Texas][2020] = 0

\* the record spells the column both ways, with distinct values
BothSpellings(row, exact, lower) ==
  /\ exact \in DOMAIN row
  /\ lower \in DOMAIN row
  /\ row[exact] # row[lower]

\* C11 as claimed: when a record holds a column under both its exact-case
\* and its lowercase name with distinct values, the state, the year and the
\* case count are the ones of the exact-case value, whatever that value is
\* (0 and the empty string included).
C11_ExactCaseWins ==
  \A r \in RunsWithAgg :
    \A i \in 1..Len(runs[r].rows) :
      LET row == runs[r].rows[i]
      IN /\ BothSpellings(row, "State", "state") =>
              RowState(row) = Trim(ToStr(row["State"]))
         /\ BothSpellings(row, "Year", "year") =>
              RowYear(row) = ToNumber(row["Year"])
         /\ BothSpellings(row, "Cases", "cases") =>
              RowCases(row) = Or(ToNumber(row["Cases"]), Num(0)).n

\* the columns, other than the year's, whose value parses as a number
\* strictly between 1900 and 2100
YearLikeColumns(row) ==
  {c \in DOMAIN row \ {"Year", "year"} :
     LET n == ToNumber(row[c]) IN IsNum(n) /\ n.n > 1900 /\ n.n < 2100}

\* C12 as claimed: a record with neither a "Year" nor a "year" column takes
\* its year from another column whose value is a number strictly between
\* 1900 and 2100, and is dropped only when it has no such column: with a
\* usable state, the adopted year is in years and its pivot cell exists.
C12_YearFromOtherColumns ==
  \A r \in RunsWithAgg :
    LET a == runs[r].agg
        rows == runs[r].rows
    IN \A i \in 1..Len(rows) :
         LET row == rows[i]
             s == RowState(row)
         IN ("Year" \notin DOMAIN row /\ "year" \notin DOMAIN row /\ s # <<>>) =>
              IF YearLikeColumns(row) = {}
              THEN ~RowKept(row)
              ELSE \E c \in YearLikeColumns(row) :
                     LET y == ToNumber(row[c]).n
                     IN /\ y \in Range(a.years)
                        /\ s \in DOMAIN a.pivot
                        /\ y \in DOMAIN a.pivot[s]

\* C13 as claimed: every surviving row contributes a case count >= 0, and
\* every pivot cell, snapshot value, per-year total of the line chart and
\* the total is >= 0.
C13_NothingNegative ==
  \A r \in RunsWithAgg :
    LET a == runs[r].agg
        rows == runs[r].rows
        series == YearAggOf(rows)
    IN /\ \A i \in Survivors(rows) : RowCases(rows[i]) >= 0
       /\ \A s \in DOMAIN a.pivot : \A y \in DOMAIN a.pivot[s] : a.pivot[s][y] >= 0
       /\ \A s \in DOMAIN a.stateValues : a.stateValues[s] >= 0
       /\ \A y \in DOMAIN series : series[y] >= 0
       /\ a.total >= 0

\* the resolved year as a year number, NaN when there is none
ResolvedYear(a) == ToNumber(a.selectedYear)

\* C14 as claimed: every state of states has a pivot entry and a snapshot
\* entry, the snapshot has no other key, and the snapshot of a state is its
\* pivot cell of the resolved year when that cell exists and 0 otherwise.
C14_SnapshotIsYearSlice ==
  \A r \in RunsWithAgg :
    LET a == runs[r].agg
        y == ResolvedYear(a)
    IN /\ Range(a.states) \subseteq DOMAIN a.pivot
       /\ DOMAIN a.stateValues = Range(a.states)
       /\ \A s \in Range(a.states) :
            a.stateValues[s] =
              IF IsNum(y) /\ y.n \in DOMAIN a.pivot[s] THEN a.pivot[s][y.n] ELSE 0

SnapshotValues(a) == {a.stateValues[s] : s \in DOMAIN a.stateValues}

\* C15: the range bounds every snapshot value from below and above and both
\* bounds are snapshot values; the range of an empty snapshot is 0 to 0.
C15_RangeBoundsSnapshot ==
  \A r \in RunsWithAgg :
    LET a == runs[r].agg
        V == SnapshotValues(a)
    IN IF V = {}
       THEN a.minV = 0 /\ a.maxV = 0
       ELSE /\ a.minV \in V
            /\ a.maxV \in V
            /\ \A v \in V : a.minV <= v /\ v <= a.maxV

\* two states of which one has no cell in the resolved year: 0 to 10
C15_Witness ==
  \E r \in RunsWithAgg :
    /\ DOMAIN runs[r].agg.stateValues = {Ohio, Utah}
    /\ runs[r].agg.stateValues[Ohio] = 10
    /\ runs[r].agg.stateValues[Utah] = 0
    /\ runs[r].agg.minV = 0
    /\ runs[r].agg.maxV = 10

\* the sum over all states of pivot[s][y], absent cells counting 0
ColumnSum(pivot, y) == CellSum(pivot, {c \in PivotCells(pivot) : c[2] = y})

\* C16 as claimed: the series of the line chart lists exactly the years of
\* years, ascending, and the total of each year is the sum over all states
\* of that year's pivot cells.
C16_YearSeriesMatchesPivot ==
  \A r \in RunsWithAgg :
    LET a == runs[r].agg
        series == YearAggOf(runs[r].rows)
    IN /\ SortedKeys(series) = a.years
       /\ \A i \in 1..Len(a.years), j \in 1..Len(a.years) :
            i < j => a.years[i] < a.years[j]
       /\ \A y \in DOMAIN series : series[y] = ColumnSum(a.pivot, y)

RECURSIVE SnapshotSum(_, _)
SnapshotSum(sv, S) ==
  IF S = {} THEN 0
  ELSE LET s == CHOOSE x \in S : TRUE
       IN sv[s] + SnapshotSum(sv, S \ {s})

\* C17 as claimed: the total is the sum of the snapshot values, which is
\* the sum over all states of the pivot cells of the resolved year, absent
\* cells counting 0.
C17_TotalIsSnapshotSum ==
  \A r \in RunsWithAgg :
    LET a == runs[r].agg
        y == ResolvedYear(a)
    IN /\ a.total = SnapshotSum(a.stateValues, DOMAIN a.stateValues)
       /\ a.total = IF IsNum(y) THEN ColumnSum(a.pivot, y.n) ELSE 0

\* C18: when the same dataset is loaded again with the selects untouched,
\* the later load yields the same pivot, years, states, snapshot, range,
\* per-year series, total and resolved year as the earlier one: nothing
\* the earlier load left behind changes the result.
C18_ReloadIsIdentical ==
  \A r1 \in RunsWithAgg, r2 \in RunsWithAgg :
    LET a1 == runs[r1].agg
        a2 == runs[r2].agg
    IN (runs[r1].key = runs[r2].key /\ runs[r1].rows = runs[r2].rows) =>
         /\ a1.pivot = a2.pivot
         /\ a1.years = a2.years
         /\ a1.states = a2.states
         /\ a1.stateValues = a2.stateValues
         /\ a1.minV = a2.minV /\ a1.maxV = a2.maxV
         /\ YearAggOf(runs[r1].rows) = YearAggOf(runs[r2].rows)
         /\ a1.total = a2.total
         /\ ResolvedYear(a1) = ResolvedYear(a2)

\* the page is opened for a year the file does not have, the first load
\* falls back to 2001 and leaves it in the select, the second load asks
\* for 2001
C18_Witness ==
  /\ runs[1].pc = "done" /\ runs[2].pc = "done"
  /\ runs[1].req = Str(<<>>)
  /\ runs[2].req = Str(<<"2", "0", "0", "1">>)
  /\ runs[1].agg.years = <<2000, 2001>>
  /\ runs[2].agg.total = 4

\* C19: for a key of the table the resolution ends with the pre-converted
\* candidate exactly when the probe reported success and with the base file
\* name after any other outcome, a non-2xx answer or a rejected request
\* included, and never in an error: the chosen file is being fetched.
C19_ProbeDecidesFilename ==
  \A r \in 1..MaxRuns :
    /\ runs[r].probe # "none" =>
         /\ runs[r].key \in Keys
         /\ runs[r].pc = "fetch"
         /\ runs[r].fname = IF runs[r].probe = "ok" THEN JsonName(runs[r].key)
                            ELSE BaseName(runs[r].key)
    /\ runs[r].key \in Keys => runs[r].err \notin {"NoMapping", "TypeError"}

\* the probe of TB.json is rejected and TB.xlsx is being fetched
C19_Witness ==
  \E r \in 1..MaxRuns :
    /\ runs[r].key = "TB"
    /\ runs[r].probe = "throws"
    /\ runs[r].pc = "fetch"
    /\ runs[r].fname = TbXlsx

\* C20 as claimed: for every key that is not in the table the resolution
\* fails with the unknown-key error, and the load issues neither the probe
\* nor a fetch of a file.
C20_UnknownKeyFails ==
  \A r \in 1..MaxRuns :
    (runs[r].pc # "idle" /\ runs[r].key \notin Keys) =>
      /\ runs[r].pc = "failed"
      /\ runs[r].err = "NoMapping"
      /\ runs[r].probe = "none"
      /\ runs[r].fname = NoName
      /\ runs[r].rows = <<>>
      /\ runs[r].agg = NoAgg

\* C21 as claimed: the probe is capped: a load that is waiting for the
\* answer to its HEAD request eventually has its file name and goes on to
\* fetch the file, and when the probe is never answered that file is the
\* base file.
C21_ProbeIsCapped ==
  \A r \in 1..MaxRuns :
    (runs[r].pc = "head") ~>
      (runs[r].pc = "fetch" /\ (~probeAnswers => runs[r].fname = BaseName(runs[r].key)))

(* ------------------------- parser failures --------------------------- *)
\* C22 as claimed: once the file of a request is chosen, a failure to
\* fetch or parse it ends the request: the map page and the state page
\* report the parser's error and their run fetches nothing more, and the
\* landing page, once its pre-converted candidate was there to decode,
\* requests no other file.
C22_ParseFailureIsTerminal ==
  /\ \A r \in 1..MaxRuns :
       runs[r].parse.t = "throw" =>
         runs[r].pc = "failed" /\ runs[r].err = runs[r].parse.err.kind
  /\ statePage.parse.t = "throw" =>
       /\ statePage.pc = "failed"
       /\ statePage.rawTable = [t |-> "error", err |-> statePage.parse.err.kind]
  /\ JsonName(indexPage.key) \in indexPage.decoded => Len(indexPage.fetched) = 1

\* C23 as claimed: an answer with a status outside 200-299 makes the
\* parser throw FetchFailed with that status, without decoding the body.
FailedAnswer(parse) ==
  parse.t # "none" /\ parse.status # 0 /\ parse.status \notin 200..299
C23_FailedFetchIsNotDecoded ==
  /\ \A r \in 1..MaxRuns :
       FailedAnswer(runs[r].parse) =>
         /\ runs[r].parse.t = "throw"
         /\ runs[r].parse.err = FetchFailed(runs[r].parse.status)
         /\ ~runs[r].parse.decoded
  /\ FailedAnswer(statePage.parse) =>
       /\ statePage.parse.t = "throw"
       /\ statePage.parse.err = FetchFailed(statePage.parse.status)
       /\ ~statePage.parse.decoded

\* C24 as claimed: the parser never returns as the rows of a .json file
\* a value that is not a sequence.
C24_NonSequenceIsMalformed ==
  \A r \in 1..MaxRuns :
    runs[r].parse.t = "return" => runs[r].parse.value.t = "rows"

\* C25 as claimed: without the XLSX library a spreadsheet that was
\* fetched is not decoded and the parse fails with an error of its own
\* that reaches the caller.
C25_CodecUnavailable ==
  /\ \A r \in 1..MaxRuns :
       (/\ ~xlsxLib
        /\ runs[r].parse.t # "none"
        /\ EndsWith(runs[r].parse.name, DotXlsx)
        /\ runs[r].parse.status \in 200..299) =>
         /\ runs[r].parse.t = "throw"
         /\ runs[r].parse.err = Err("NoXLSX")
         /\ ~runs[r].parse.decoded
         /\ runs[r].err = "NoXLSX"
  /\ (/\ ~xlsxLib
      /\ indexPage.pc = "done"
      /\ Len(indexPage.answers) = 2
      /\ indexPage.answers[2] \in 200..299) =>
       /\ BaseName(indexPage.key) \notin indexPage.decoded
       /\ indexPage.result = "throw"

(* ----------------------------- CSV export ---------------------------- *)
\* the text the export is specified to produce for a heatmap: the line
\* State,<year1>,... and one line per state in order, the name in double
\* quotes with its quotes doubled, then the cell of each year
RECURSIVE Concat(_)
Concat(parts) == IF parts = <<>> THEN <<>> ELSE Head(parts) \o Concat(Tail(parts))
ClaimedLine(h, first, cells) ==
  first \o Concat([j \in 1..Len(h.years) |-> <<",">> \o cells[j]])
ClaimedLines(h) ==
  <<ClaimedLine(h, StateHeader, [j \in 1..Len(h.years) |-> NumToStr(h.years[j])])>>
  \o [i \in 1..Len(h.states) |->
        ClaimedLine(h, <<"\"">> \o DoubleQuotes(h.states[i]) \o <<"\"">>,
                    [j \in 1..Len(h.years) |->
                       NumToStr(GetOr0(h.pivot[h.states[i]], h.years[j]))])]

\* C26 as claimed: the exported text is the header line State,<years> and
\* one line per state of the heatmap, in order, of the quoted name and
\* the cells.
C26_ExportFormat ==
  download.t = "csv" => SplitOn(download.text, "\n") = ClaimedLines(heatmap)

\* the (state, year, value) triples of a heatmap and of parsed rows
TriplesOfPivot(h) ==
  {<<st, NumToStr(yr), GetOr0(h.pivot[st], yr)>> :
     st \in Range(h.states), yr \in Range(h.years)}
TriplesOfRows(rows) ==
  UNION {{<<rows[i][StateHeader].s, c, ToNumber(rows[i][c]).n>> :
            c \in DOMAIN rows[i] \ {StateHeader}} : i \in 1..Len(rows)}

SelectableYears == {NumToStr(2001), NumToStr(2019), NumToStr(2020)}

\* a loadAll invocation was started for this disease, for this year
StartedFor(k) == \E r \in 1..MaxRuns : runs[r].pc # "idle" /\ runs[r].key = k
StartedForYear(v) == \E r \in 1..MaxRuns : runs[r].pc # "idle" /\ runs[r].req = Str(v)

\* C28 as claimed: whenever the disease select or the year select shows a
\* value, a pipeline run for that value is eventually started without a
\* click on Load, unless the selection is changed again first.
C28_SelectionChangeReloads ==
  /\ \A k \in Keys : (booted /\ dsValue = k) ~> (StartedFor(k) \/ dsValue # k)
  /\ \A v \in SelectableYears :
        (booted /\ yearValue = v) ~> (StartedForYear(v) \/ yearValue # v)

(* ---- two loadAll runs in flight ---- *)
\* C29 as claimed: the snapshot, the total and the labels a run computes
\* from its rows are the ones of the year that run read when it started,
\* whatever another loadAll wrote to selectedYear in between.
C29_RunUsesItsOwnSelection ==
  \A r \in 1..MaxRuns :
     runs[r].agg # NoAgg =>
        LET own == Aggregate(runs[r].rows, runs[r].req)
        IN /\ runs[r].agg.stateValues = own.stateValues
           /\ runs[r].agg.total = own.total
           /\ ToStr(runs[r].agg.selectedYear) = ToStr(own.selectedYear)

(* ---- populateYearSelectForDisease calls in flight together ---- *)
\* every populateYearSelectForDisease call made so far has completed, there
\* were several, and no loadAll has rebuilt the dropdown since
PopulatesSettled ==
  /\ nPops >= 2
  /\ \A p \in 1..nPops : pops[p].pc = "done"
  /\ \A r \in 1..MaxRuns : runs[r].agg = NoAgg

\* C30 as claimed: once all the populate calls have completed, the year
\* dropdown lists exactly the years of the disease selected last (or the
\* 'No years' entry when its file gave none), in whatever order the
\* fetches completed.
C30_LastSelectionWins ==
  PopulatesSettled =>
     yearOptions \in {YearOptionsOf(PopYearsOf(files[dsValue])), NoYearsOptions}
====
